---- MODULE Spec2Model ----
(***************************************************************************)
(* Model of src/src/main.rs: the Hulth keyword-extraction evaluation run.  *)
(*                                                                         *)
(* main() loads every non-directory entry of the corpus directory, fits a  *)
(* TF-IDF model on the loaded documents, reads the reference keyword file, *)
(* then walks the directory a second time, ranking each document's terms   *)
(* and matching them against the reference, and finally prints the means.  *)
(*                                                                         *)
(* Strings are sequences of one-character strings, so that replace and     *)
(* split are computed as the code computes them.  An f64 is a record: a    *)
(* NaN, an infinity, or an exact fraction n/d in lowest terms (rounding    *)
(* and the sign of zero are not modelled).                                 *)
(***************************************************************************)
EXTENDS Integers, Sequences, FiniteSets, TLC

VARIABLES
    dir,        \* the corpus directory: a sequence of entries
    refFile,    \* the reference keyword file on disk
    pc,         \* position of main()
    idx,        \* position of the running for_each_file loop
    docs,       \* main's `docs` vector
    tfidf,      \* the Tfidf model
    keywords,   \* main's `keywords` map, once read
    measures,   \* main's `measures` vector
    stdout,     \* lines printed with println!
    stderr,     \* lines printed to the error stream
    log,        \* history of the calls made, in order
    counts,     \* history: per pushed measure, the lengths it was computed from
    f1in,       \* inputs of f1 (specification SpecF1)
    f1out,      \* results of f1
    rankin,     \* a term->score mapping in iteration order (specification SpecRank)
    rankout     \* the sorted ranking and the comparisons made

vars == <<dir, refFile, pc, idx, docs, tfidf, keywords, measures, stdout,
          stderr, log, counts, f1in, f1out, rankin, rankout>>

pipelineVars == <<dir, refFile, pc, idx, docs, tfidf, keywords, measures,
                  stdout, stderr, log, counts>>

(***************************************************************************)
(* Bounds                                                                  *)
(***************************************************************************)
MaxFiles == 2
MaxDen == 5
MaxScore == 2

(***************************************************************************)
(* f64                                                                     *)
(***************************************************************************)
Abs(x) == IF x < 0 THEN -x ELSE x

RECURSIVE Gcd(_, _)
Gcd(a, b) == IF b = 0 THEN a ELSE Gcd(b, a % b)

NaN == [k |-> "nan", n |-> 0, d |-> 1]

Inf(sign) == [k |-> "inf", n |-> sign, d |-> 0]

Fin(n, d) ==
    LET g == Gcd(Abs(n), Abs(d))
        s == IF d < 0 THEN -1 ELSE 1
    IN  [k |-> "fin", n |-> (s * n) \div g, d |-> (s * d) \div g]

Num(n) == Fin(n, 1)

Zero == Num(0)

is_nan(a) == a.k = "nan"

Sign(a) == IF a.n > 0 THEN 1 ELSE IF a.n < 0 THEN -1 ELSE 0

\* a == b on f64: false whenever a NaN is involved
FEq(a, b) == ~is_nan(a) /\ ~is_nan(b) /\ a = b

\* a < b on f64: false whenever a NaN is involved
FLt(a, b) ==
    /\ ~is_nan(a)
    /\ ~is_nan(b)
    /\ IF a.k = "inf" /\ b.k = "inf"
       THEN a.n < b.n
       ELSE a.n * b.d < b.n * a.d

FGt(a, b) == FLt(b, a)

FMul(a, b) ==
    IF is_nan(a) \/ is_nan(b) THEN NaN
    ELSE IF a.k = "inf" \/ b.k = "inf"
         THEN IF Sign(a) * Sign(b) = 0 THEN NaN ELSE Inf(Sign(a) * Sign(b))
         ELSE Fin(a.n * b.n, a.d * b.d)

FAdd(a, b) ==
    IF is_nan(a) \/ is_nan(b) THEN NaN
    ELSE IF a.k = "inf" /\ b.k = "inf"
         THEN IF a.n = b.n THEN a ELSE NaN
         ELSE IF a.k = "inf" THEN a
         ELSE IF b.k = "inf" THEN b
         ELSE Fin(a.n * b.d + b.n * a.d, a.d * b.d)

FDiv(a, b) ==
    IF is_nan(a) \/ is_nan(b) THEN NaN
    ELSE IF a.k = "inf"
         THEN IF b.k = "inf" THEN NaN
              ELSE Inf(IF Sign(b) < 0 THEN -Sign(a) ELSE Sign(a))
         ELSE IF b.k = "inf" THEN Zero
         ELSE IF b.n = 0
              THEN IF a.n = 0 THEN NaN ELSE Inf(Sign(a))
              ELSE Fin(a.n * b.d, a.d * b.n)

\* usize as f64
AsF64(n) == Num(n)

(***************************************************************************)
(* Strings                                                                 *)
(***************************************************************************)
Last(s) == s[Len(s)]

Front(s) == SubSeq(s, 1, Len(s) - 1)

Contains(s, x) == \E i \in DOMAIN s : s[i] = x

\* str::replace(from, to): left to right, non-overlapping, single pass
RECURSIVE Replace(_, _, _)
Replace(s, from, to) ==
    IF Len(s) < Len(from) THEN s
    ELSE IF SubSeq(s, 1, Len(from)) = from
         THEN to \o Replace(SubSeq(s, Len(from) + 1, Len(s)), from, to)
         ELSE <<s[1]>> \o Replace(Tail(s), from, to)

\* str::split(" "): the pieces between single spaces, empty pieces included
RECURSIVE SplitFrom(_, _, _)
SplitFrom(s, sep, cur) ==
    IF s = <<>> THEN <<cur>>
    ELSE IF s[1] = sep THEN <<cur>> \o SplitFrom(Tail(s), sep, <<>>)
         ELSE SplitFrom(Tail(s), sep, Append(cur, s[1]))

Split(s, sep) == SplitFrom(s, sep, <<>>)

RECURSIVE Concat(_)
Concat(ss) == IF ss = <<>> THEN <<>> ELSE ss[1] \o Concat(Tail(ss))

DotJson == <<".", "j", "s", "o", "n">>

(***************************************************************************)
(* Pure functions of main.rs                                               *)
(***************************************************************************)
RECURSIVE Sum(_)
Sum(v) == IF v = <<>> THEN Zero ELSE FAdd(Sum(Front(v)), Last(v))

\* fn mean: the sum over the length; 0/0 on an empty slice
mean(v) == FDiv(Sum(v), AsF64(Len(v)))

\* the early return of f1, taken with && in place of ||
F1GuardBoth(precision, recall) == FEq(precision, Zero) /\ FEq(recall, Zero)

\* the early return of f1
F1Guard(precision, recall) == FEq(precision, Zero) \/ FEq(recall, Zero)

\* the divisor of f1's division
F1Divisor(precision, recall) == FAdd(precision, recall)

\* fn f1
f1(precision, recall) ==
    IF F1Guard(precision, recall)
    THEN Zero
    ELSE LET tmp == FDiv(FMul(precision, recall), F1Divisor(precision, recall))
         IN  FMul(Num(2), tmp)

\* fn cmp_f64
cmp_f64(a, b) ==
    IF is_nan(a) THEN "Less"
    ELSE IF is_nan(b) THEN "Greater"
    ELSE IF FLt(a, b) THEN "Greater"
    ELSE IF FGt(a, b) THEN "Less"
    ELSE "Equal"

\* the comparator closure handed to sort_by: |a, b| cmp_f64(*a.1, *b.1)
RankedCmp(a, b) == cmp_f64(a.score, b.score)

\* slice::sort_by on a short slice: a stable insertion sort that moves an
\* element left while the comparator says it is Less than its left neighbour
RECURSIVE InsertTail(_, _)
InsertTail(s, x) ==
    IF s = <<>> THEN <<x>>
    ELSE IF RankedCmp(x, Last(s)) = "Less"
         THEN Append(InsertTail(Front(s), x), Last(s))
         ELSE Append(s, x)

RECURSIVE sort_by(_)
sort_by(v) == IF v = <<>> THEN <<>> ELSE InsertTail(sort_by(Front(v)), Last(v))

(***************************************************************************)
(* Documents and the reference                                             *)
(***************************************************************************)
\* HulthToken::get_term
get_term(t) == t.word

\* HulthDocument::get_flat_tokens
get_flat_tokens(doc) == Concat(doc.sentences)

\* Document::get_content
get_content(doc) == get_flat_tokens(doc)

TermsOf(tokens) == {get_term(tokens[i]) : i \in DOMAIN tokens}

\* the document key: the file name with ".json" replaced by ""
DeriveKeyFirstOnly(name) ==
    IF \E i \in 1..Len(name) : SubSeq(name, i, i + Len(DotJson) - 1) = DotJson
    THEN LET i == CHOOSE i \in 1..Len(name) :
                      /\ SubSeq(name, i, i + Len(DotJson) - 1) = DotJson
                      /\ \A j \in 1..(i - 1) :
                            SubSeq(name, j, j + Len(DotJson) - 1) # DotJson
         IN  SubSeq(name, 1, i - 1) \o SubSeq(name, i + Len(DotJson), Len(name))
    ELSE name

DeriveKey(name) == Replace(name, DotJson, <<>>)

\* the flattened reference: every phrase of every group split on " "
RECURSIVE FlattenGroup(_)
FlattenGroup(g) ==
    IF g = <<>> THEN <<>> ELSE Split(g[1], " ") \o FlattenGroup(Tail(g))

RECURSIVE FlattenReference(_)
FlattenReference(ref) ==
    IF ref = <<>> THEN <<>>
    ELSE FlattenGroup(ref[1]) \o FlattenReference(Tail(ref))

\* relevant, pushed once per matching occurrence in the reference
RECURSIVE RelevantPerOccurrence(_, _)
RelevantPerOccurrence(ranked, reference) ==
    IF reference = <<>> THEN <<>>
    ELSE (IF \E i \in DOMAIN ranked : ranked[i].term = reference[1]
          THEN <<reference[1]>> ELSE <<>>)
         \o RelevantPerOccurrence(ranked, Tail(reference))

\* the ranked terms found in the reference, in ranking order
Relevant(ranked, reference) ==
    LET InRef(e) == Contains(reference, e.term)
        kept == SelectSeq(ranked, InRef)
    IN  [i \in DOMAIN kept |-> kept[i].term]

\* the MeasureHolder of one document
Measure(ranked, reference) ==
    LET relevant == Relevant(ranked, reference)
        precision == FDiv(AsF64(Len(relevant)), AsF64(Len(ranked)))
        recall == FDiv(AsF64(Len(relevant)), AsF64(Len(reference)))
    IN  [precision |-> precision, recall |-> recall, f1 |-> f1(precision, recall)]

(***************************************************************************)
(* The Tfidf model of lib_tfidf, as main.rs uses it                        *)
(***************************************************************************)
Unfit == [fitted |-> FALSE, n |-> 0, df |-> <<>>]

\* Tfidf::fit_transform: document frequencies and N; Err on an empty corpus
fit_transform(corpus) ==
    LET all == UNION {TermsOf(get_content(corpus[i])) : i \in DOMAIN corpus}
        df == [t \in all |->
                 Cardinality({i \in DOMAIN corpus : t \in TermsOf(get_content(corpus[i]))})]
    IN  IF Len(corpus) = 0
        THEN [err |-> TRUE, model |-> Unfit]
        ELSE [err |-> FALSE, model |-> [fitted |-> TRUE, n |-> Len(corpus), df |-> df]]

\* Tfidf::rank_tokens: one score per distinct term of the stream; Err before fit.
\* The scoring formula is the library's; `scores` stands for its values.
rank_tokens(model, tokens, scores) ==
    [err |-> ~model.fitted, map |-> [t \in TermsOf(tokens) |-> scores[t]]]

\* ranked.iter().collect(): the map's entries in the map's iteration order
Collect(map, order) ==
    [i \in DOMAIN order |-> [term |-> order[i], score |-> map[order[i]]]]

(***************************************************************************)
(* The inputs of a run                                                     *)
(***************************************************************************)
Network == <<"n">>
Cloud == <<"c">>
Security == <<"s">>

Tok(w) == [word |-> w, lemma |-> w]

DocEmpty == [sentences |-> <<>>]
DocNCS == [sentences |-> << <<Tok(Network), Tok(Cloud)>>, <<Tok(Security)>> >>]
DocNN == [sentences |-> << <<>>, <<Tok(Network), Tok(Network)>> >>]

NameA == <<"a">> \o DotJson
NameB == <<"b">> \o DotJson
NameAA == <<"a">> \o DotJson \o DotJson
Names == {NameA, NameB, NameAA}

KeyA == <<"a">>
KeyB == <<"b">>
Keys == {KeyA, KeyB}

EntryBodies ==
    {[kind |-> "dir", doc |-> DocEmpty], [kind |-> "malformed", doc |-> DocEmpty]}
    \cup {[kind |-> "doc", doc |-> d] : d \in {DocEmpty, DocNCS, DocNN}}

Entries == {[name |-> nm, kind |-> b.kind, doc |-> b.doc] : nm \in Names, b \in EntryBodies}

DirListings ==
    UNION {{l \in [1..k -> Entries] :
              \A i, j \in 1..k : i # j => l[i].name # l[j].name} : k \in 0..MaxFiles}

RefEmpty == <<>>
RefNS == << <<<<"n", " ", "s">>>> >>
RefDup == << <<<<"n", " ", "s">>>>, <<<<"n">>>> >>
RefDouble == << <<<<"n", " ", " ", "c">>>> >>
RefChoices == {RefEmpty, RefNS, RefDup, RefDouble}

RefFiles ==
    {[kind |-> "malformed", map |-> <<>>]}
    \cup {[kind |-> "ok", map |-> m] :
            m \in {f \in UNION {[K -> RefChoices] : K \in SUBSET Keys} :
                     KeyB \in DOMAIN f => f[KeyB] = RefNS}}

PipelineScores == {NaN, Num(1)}

Perms(T) ==
    {p \in [1..Cardinality(T) -> T] : \A i, j \in DOMAIN p : i # j => p[i] # p[j]}

Ev(op, i) == [op |-> op, i |-> i]

NoF1In == <<Zero, Zero>>
NoF1 == [value |-> Zero, swapped |-> Zero, divided |-> FALSE, divisor |-> Zero,
         done |-> FALSE]
NoRankIn == <<>>
NoRank == [ranked |-> <<>>, cmps |-> <<>>, sorted |-> FALSE]

(***************************************************************************)
(* main()                                                                  *)
(***************************************************************************)
Init ==
    /\ dir \in DirListings
    /\ refFile \in RefFiles
    /\ pc = "start"
    /\ idx = 0
    /\ docs = <<>>
    /\ tfidf = Unfit
    /\ keywords = <<>>
    /\ measures = <<>>
    /\ stdout = <<>>
    /\ stderr = <<>>
    /\ log = <<>>
    /\ counts = <<>>
    /\ f1in = NoF1In
    /\ f1out = NoF1
    /\ rankin = NoRankIn
    /\ rankout = NoRank

\* main returns Err: the runtime reports it on the error stream and exits
Abort(kind, lines, evs) ==
    /\ pc' = "failed"
    /\ stderr' = stderr \o lines \o << <<"Error", kind>> >>
    /\ log' = log \o evs \o <<Ev("err", idx)>>

\* for_each_file, `f(&path)?` with the error dropped
AfterCallbackIgnore(result, pass) == pass

\* for_each_file, `f(&path)?`: the first Err ends the iteration
AfterCallback(result, pass) == IF result = "Err" THEN "failed" ELSE pass

\* `tfidf.fit_transform()?` with the error dropped
AfterFitIgnore(err) == "readref"

\* `tfidf.fit_transform()?`
AfterFit(err) == IF err THEN "failed" ELSE "readref"

\* the else branch of the reference lookup, skipping the document
MissingReferenceSkip == "Ok"

\* the else branch of the reference lookup: Err("found no keywords")
MissingReference == "Err"

\* for_each_file: fs::read_dir(path)?
OpenDir(from, to) ==
    /\ pc = from
    /\ \E io \in {"ok", "io_err"} :
         IF io = "io_err"
         THEN Abort("read_dir", <<>>, <<>>) /\ UNCHANGED idx
         ELSE /\ pc' = to
              /\ idx' = 1
              /\ log' = Append(log, Ev("read_dir", 0))
              /\ UNCHANGED stderr
    /\ UNCHANGED <<dir, refFile, docs, tfidf, keywords, measures, stdout, counts,
                   f1in, f1out, rankin, rankout>>

OpenDirLoad == OpenDir("start", "load")

OpenDirEval == OpenDir("evalstart", "eval")

\* one iteration of the first for_each_file: read and parse a file, push the doc
LoadEntry ==
    /\ pc = "load"
    /\ idx <= Len(dir)
    /\ \E io \in {"ok", "entry_err", "read_err"} :
         LET e == dir[idx]
             result == IF io = "read_err" \/ e.kind = "malformed" THEN "Err" ELSE "Ok"
         IN  IF io = "entry_err"
             THEN Abort("entry", <<>>, <<>>) /\ UNCHANGED <<idx, docs>>
             ELSE IF e.kind = "dir"
             THEN /\ idx' = idx + 1
                  /\ log' = Append(log, Ev("skip", idx))
                  /\ UNCHANGED <<pc, docs, stderr>>
             ELSE /\ docs' = IF result = "Ok" THEN Append(docs, e.doc) ELSE docs
                  /\ IF AfterCallback(result, "load") = "failed"
                     THEN Abort(IF io = "read_err" THEN "read" ELSE "parse", <<>>, <<>>)
                          /\ UNCHANGED idx
                     ELSE /\ idx' = idx + 1
                          /\ log' = Append(log, Ev(IF result = "Ok" THEN "load" ELSE "dropped", idx))
                          /\ UNCHANGED <<pc, stderr>>
    /\ UNCHANGED <<dir, refFile, tfidf, keywords, measures, stdout, counts,
                   f1in, f1out, rankin, rankout>>

\* the first for_each_file returned Ok: Tfidf::new(docs), fit_transform()?
Fit ==
    /\ pc = "load"
    /\ idx > Len(dir)
    /\ LET r == fit_transform(docs)
           evs == <<Ev("fit_call", 0), Ev(IF r.err THEN "fit_err" ELSE "fit", 0)>>
       IN  /\ tfidf' = r.model
           /\ IF AfterFit(r.err) = "failed"
              THEN Abort("fit", <<>>, evs)
              ELSE /\ pc' = AfterFit(r.err)
                   /\ log' = log \o evs
                   /\ UNCHANGED stderr
    /\ UNCHANGED <<dir, refFile, idx, docs, keywords, measures, stdout, counts,
                   f1in, f1out, rankin, rankout>>

\* serde_json::from_reader(File::open(reference)?)?
ReadReference ==
    /\ pc = "readref"
    /\ \E io \in {"ok", "read_err"} :
         IF io = "read_err" \/ refFile.kind = "malformed"
         THEN Abort(IF io = "read_err" THEN "read" ELSE "parse", <<>>, <<>>)
              /\ UNCHANGED keywords
         ELSE /\ keywords' = refFile.map
              /\ pc' = "evalstart"
              /\ log' = Append(log, Ev("readref", 0))
              /\ UNCHANGED stderr
    /\ UNCHANGED <<dir, refFile, idx, docs, tfidf, measures, stdout, counts,
                   f1in, f1out, rankin, rankout>>

\* one iteration of the second for_each_file: rank, sort, match, push a measure
EvalEntry ==
    /\ pc = "eval"
    /\ idx <= Len(dir)
    /\ LET e == dir[idx]
           tokens == get_content(e.doc)
       IN  \E io \in {"ok", "entry_err", "read_err"} :
           \E order \in Perms(TermsOf(tokens)) :
           \E scores \in [TermsOf(tokens) -> PipelineScores] :
             LET rk == rank_tokens(tfidf, tokens, scores)
                 ranked == sort_by(Collect(rk.map, order))
                 name == DeriveKey(e.name)
                 found == name \in DOMAIN keywords
                 reference == IF found THEN FlattenReference(keywords[name]) ELSE <<>>
                 early == io = "read_err" \/ e.kind = "malformed" \/ rk.err
                 result == IF early THEN "Err"
                           ELSE IF found THEN "Ok" ELSE MissingReference
                 ranEv == IF io = "read_err" \/ e.kind = "malformed"
                          THEN <<>> ELSE <<Ev("rank", idx)>>
                 errLines == IF ~early /\ ~found THEN << <<"key", name>> >> ELSE <<>>
             IN  IF io = "entry_err"
                 THEN Abort("entry", <<>>, <<>>) /\ UNCHANGED <<idx, measures, counts>>
                 ELSE IF e.kind = "dir"
                 THEN /\ idx' = idx + 1
                      /\ log' = Append(log, Ev("skip", idx))
                      /\ UNCHANGED <<pc, stderr, measures, counts>>
                 ELSE /\ measures' = IF ~early /\ found
                                     THEN Append(measures, Measure(ranked, reference))
                                     ELSE measures
                      /\ counts' = IF ~early /\ found
                                   THEN Append(counts,
                                          [i |-> idx,
                                           relevant |-> Len(Relevant(ranked, reference)),
                                           ranked |-> Len(ranked),
                                           reference |-> Len(reference)])
                                   ELSE counts
                      /\ IF AfterCallback(result, "eval") = "failed"
                         THEN /\ Abort(IF io = "read_err" THEN "read"
                                       ELSE IF e.kind = "malformed" THEN "parse"
                                       ELSE IF rk.err THEN "rank"
                                       ELSE "found no keywords", errLines, ranEv)
                              /\ UNCHANGED idx
                         ELSE /\ idx' = idx + 1
                              /\ stderr' = stderr \o errLines
                              /\ log' = log \o ranEv
                                            \o <<Ev(IF ~early /\ found THEN "measure"
                                                    ELSE "dropped", idx)>>
                              /\ UNCHANGED pc
    /\ UNCHANGED <<dir, refFile, docs, tfidf, keywords, stdout,
                   f1in, f1out, rankin, rankout>>

Column(field) == [i \in DOMAIN measures |-> measures[i][field]]

\* the second for_each_file returned Ok: the three means and the output line
Aggregate ==
    /\ pc = "eval"
    /\ idx > Len(dir)
    /\ LET precision_mean == mean(Column("precision"))
           recall_mean == mean(Column("recall"))
           f1_mean == mean(Column("f1"))
       IN  stdout' = Append(stdout,
                 [precision |-> precision_mean, recall |-> recall_mean, f1 |-> f1_mean])
    /\ pc' = "done"
    /\ log' = Append(log, Ev("print", 0))
    /\ UNCHANGED <<dir, refFile, idx, docs, tfidf, keywords, measures, stderr, counts,
                   f1in, f1out, rankin, rankout>>

Next ==
    \/ OpenDirLoad
    \/ LoadEntry
    \/ Fit
    \/ ReadReference
    \/ OpenDirEval
    \/ EvalEntry
    \/ Aggregate

Spec == Init /\ [][Next]_vars

(***************************************************************************)
(* f1 on its own: SpecF1 draws precision and recall from [0, 1]            *)
(***************************************************************************)
Probabilities == UNION {{Fin(n, d) : n \in 0..d} : d \in 1..MaxDen}

Idle ==
    /\ dir = <<>>
    /\ refFile = [kind |-> "malformed", map |-> <<>>]
    /\ pc = "idle"
    /\ idx = 0
    /\ docs = <<>>
    /\ tfidf = Unfit
    /\ keywords = <<>>
    /\ measures = <<>>
    /\ stdout = <<>>
    /\ stderr = <<>>
    /\ log = <<>>
    /\ counts = <<>>

InitF1 ==
    /\ Idle
    /\ f1in \in {<<p, r>> : p \in Probabilities, r \in Probabilities}
    /\ f1out = NoF1
    /\ rankin = NoRankIn
    /\ rankout = NoRank

\* f1(precision, recall), and f1 with its arguments exchanged
ApplyF1 ==
    /\ pc = "idle"
    /\ ~f1out.done
    /\ f1out' = [value |-> f1(f1in[1], f1in[2]),
                 swapped |-> f1(f1in[2], f1in[1]),
                 divided |-> ~F1Guard(f1in[1], f1in[2]),
                 divisor |-> F1Divisor(f1in[1], f1in[2]),
                 done |-> TRUE]
    /\ UNCHANGED <<pipelineVars, f1in, rankin, rankout>>

NextF1 == ApplyF1

SpecF1 == InitF1 /\ [][NextF1]_vars

(***************************************************************************)
(* The ranking on its own: SpecRank draws a term->score mapping            *)
(***************************************************************************)
Terms == {Network, Cloud, Security}

RankScores == {NaN} \cup {Num(i) : i \in 0..MaxScore}

RankInputs ==
    UNION {{Collect(m, order) : m \in [T -> RankScores], order \in Perms(T)} :
             T \in SUBSET Terms}

InitRank ==
    /\ Idle
    /\ f1in = NoF1In
    /\ f1out = NoF1
    /\ rankin \in RankInputs
    /\ rankout = NoRank

\* ranked.sort_by(|a, b| cmp_f64(*a.1, *b.1)), with the comparator's table
SortRanked ==
    /\ pc = "idle"
    /\ ~rankout.sorted
    /\ rankout' = [ranked |-> sort_by(rankin),
                   cmps |-> [i \in DOMAIN rankin |->
                               [j \in DOMAIN rankin |-> RankedCmp(rankin[i], rankin[j])]],
                   sorted |-> TRUE]
    /\ UNCHANGED <<pipelineVars, f1in, f1out, rankin>>

NextRank == SortRanked

SpecRank == InitRank /\ [][NextRank]_vars

(***************************************************************************)
(* Properties                                                              *)
(***************************************************************************)
NonDir == {i \in DOMAIN dir : dir[i].kind # "dir"}

HasEv(e) == \E k \in DOMAIN log : log[k] = e

EvsOf(op) == {k \in DOMAIN log : log[k].op = op}

\* the key of each file name of the model, written out
ExpectedKey == (NameA :> KeyA) @@ (NameB :> KeyB) @@ (NameAA :> KeyA)

\* C1: a document that reached the reference lookup and whose key (the file
\* name without any ".json") is not in the reference mapping makes the run
\* print exactly that key to the error stream and fail at once: nothing is
\* measured for it, no later document is ranked, nothing is printed.
ClaimC1 ==
    \A i \in NonDir :
        (HasEv(Ev("rank", i)) /\ ExpectedKey[dir[i].name] \notin DOMAIN keywords) =>
            /\ pc = "failed"
            /\ stderr = << <<"key", ExpectedKey[dir[i].name]>>,
                           <<"Error", "found no keywords">> >>
            /\ Len(log) >= 2
            /\ log[Len(log)] = Ev("err", i)
            /\ log[Len(log) - 1] = Ev("rank", i)
            /\ ~HasEv(Ev("measure", i))
            /\ \A k \in DOMAIN log : log[k].op \in {"rank", "measure"} => log[k].i <= i
            /\ Len(measures) = Cardinality(EvsOf("measure"))
            /\ \A k \in DOMAIN counts : counts[k].i < i
            /\ stdout = <<>>

\* a missing reference was hit while a later entry of the directory is left
WitnessC1 ==
    /\ pc = "failed"
    /\ Len(stderr) = 2
    /\ stderr[1] = <<"key", KeyA>>
    /\ idx < Len(dir)
    /\ dir[idx].name = NameAA
    /\ dir[idx + 1].kind = "doc"

\* C2: the aggregate line is printed at most once and only after every
\* non-directory entry was loaded, the model fitted and every document
\* ranked and measured with no error; a failed run has printed nothing; an
\* error is the last thing a run does, and no error is ever dropped.
ClaimC2 ==
    /\ stdout # <<>> =>
          /\ pc = "done"
          /\ Len(stdout) = 1
          /\ stderr = <<>>
          /\ EvsOf("err") = {}
          /\ HasEv(Ev("fit", 0))
          /\ HasEv(Ev("readref", 0))
          /\ \A i \in NonDir :
                /\ HasEv(Ev("load", i))
                /\ HasEv(Ev("rank", i))
                /\ HasEv(Ev("measure", i))
          /\ Len(docs) = Cardinality(NonDir)
          /\ log[Len(log)] = Ev("print", 0)
    /\ pc = "failed" => stdout = <<>> /\ log[Len(log)].op = "err"
    /\ \A k \in DOMAIN log : log[k].op = "err" => k = Len(log) /\ pc = "failed"
    /\ EvsOf("dropped") = {}
    /\ EvsOf("fit_err") # {} => pc = "failed"

\* the line was printed for a directory holding two documents
WitnessC2 ==
    /\ pc = "done"
    /\ Len(stdout) = 1
    /\ Cardinality(NonDir) = 2

\* the maximal space-free, non-empty pieces of a phrase
WordsOf(p) ==
    {w \in UNION {{SubSeq(p, i, j) : j \in i..Len(p)} : i \in DOMAIN p} :
        /\ \A k \in DOMAIN w : w[k] # " "
        /\ \E i \in DOMAIN p :
              /\ SubSeq(p, i, i + Len(w) - 1) = w
              /\ (i = 1 \/ p[i - 1] = " ")
              /\ (i + Len(w) - 1 = Len(p) \/ p[i + Len(w)] = " ")}

\* the reference token set: the union of the words of every phrase
ReferenceSet(ref) ==
    UNION {UNION {WordsOf(ref[g][q]) : q \in DOMAIN ref[g]} : g \in DOMAIN ref}

\* no phrase of the reference has a leading, trailing or doubled space, so
\* that splitting on " " and splitting on whitespace give the same pieces
SingleSpaced(ref) ==
    \A g \in DOMAIN ref : \A q \in DOMAIN ref[g] :
        \A w \in DOMAIN Split(ref[g][q], " ") : Split(ref[g][q], " ")[w] # <<>>

\* C4: every measure has precision |relevant| / |ranked| and recall
\* |relevant| / |reference set|, where ranked is the set of distinct terms of
\* the document, the reference set counts each token once however many
\* phrases contribute it, and relevant is their intersection (stated for
\* single-spaced references and non-empty ranked and reference sets).
ClaimC4 ==
    \A k \in DOMAIN measures :
        LET e == dir[counts[k].i]
            ref == keywords[ExpectedKey[e.name]]
            ranked == TermsOf(get_content(e.doc))
            refset == ReferenceSet(ref)
            relevant == ranked \cap refset
        IN  (SingleSpaced(ref) /\ ranked # {} /\ refset # {}) =>
               /\ measures[k].precision = Fin(Cardinality(relevant), Cardinality(ranked))
               /\ measures[k].recall = Fin(Cardinality(relevant), Cardinality(refset))

\* C5: no measure is computed from a zero denominator.
ClaimC5 ==
    \A k \in DOMAIN measures :
        /\ counts[k].ranked > 0
        /\ counts[k].reference > 0
        /\ ~is_nan(measures[k].precision)
        /\ ~is_nan(measures[k].recall)

InUnit(x) == x.k = "fin" /\ 0 <= x.n /\ x.n <= x.d

\* C7: for every pushed measure the relevant terms are no more than the
\* ranked terms and no more than the flattened reference list, so precision
\* and recall are in [0, 1] when neither of the two is empty.
ClaimC7 ==
    /\ Len(counts) = Len(measures)
    /\ \A k \in DOMAIN measures :
          /\ counts[k].relevant <= counts[k].ranked
          /\ counts[k].relevant <= counts[k].reference
          /\ (counts[k].ranked > 0 /\ counts[k].reference > 0) =>
                /\ InUnit(measures[k].precision)
                /\ InUnit(measures[k].recall)
                /\ measures[k].precision = Fin(counts[k].relevant, counts[k].ranked)
                /\ measures[k].recall = Fin(counts[k].relevant, counts[k].reference)

\* a measure from a reference that repeats a token, on a one-term document
WitnessC7 ==
    \E k \in DOMAIN measures :
        /\ counts[k].reference = 3
        /\ counts[k].ranked = 1
        /\ counts[k].relevant = 1
        /\ keywords[ExpectedKey[dir[counts[k].i].name]] = RefDup

\* C8: every rank_tokens call comes after the one fit_transform call, which
\* succeeded and itself came after every non-directory entry was loaded;
\* a failed fit ends the run with no document ranked, the reference file
\* unread and nothing printed; there is no second fit.
ClaimC8 ==
    /\ Cardinality(EvsOf("fit_call")) <= 1
    /\ \A k \in EvsOf("fit_call") :
          /\ \A i \in NonDir : \E m \in 1..(k - 1) : log[m] = Ev("load", i)
          /\ \A m \in 1..(k - 1) : log[m].op \notin {"err", "dropped", "rank"}
          /\ Len(docs) = Cardinality(NonDir)
    /\ \A k \in EvsOf("rank") :
          /\ tfidf.fitted
          /\ tfidf.n = Cardinality(NonDir)
          /\ \E j \in 1..(k - 1) : log[j] = Ev("fit", 0)
    /\ EvsOf("fit_err") # {} =>
          /\ pc = "failed"
          /\ EvsOf("rank") = {}
          /\ EvsOf("readref") = {}
          /\ keywords = <<>>
          /\ measures = <<>>
          /\ stdout = <<>>

\* the fit failed on a directory that holds entries, none of them a file
WitnessC8 ==
    /\ EvsOf("fit_err") # {}
    /\ Len(dir) >= 1
    /\ pc = "failed"

\* C9: whenever the aggregation step is reached the measure list holds one
\* entry per non-directory entry of the directory, and at least one.
ClaimC9 ==
    ((pc = "eval" /\ idx > Len(dir)) \/ pc = "done" \/ stdout # <<>>) =>
        /\ Len(measures) >= 1
        /\ Len(measures) = Cardinality(NonDir)

\* the means were taken over two measures, one per file of the directory
WitnessC9 ==
    /\ pc = "done"
    /\ Len(measures) = 2

\* C6: for p, r in [0, 1], f1 is 0 when p or r is 0 and 2pr / (p + r)
\* otherwise, f1(p, r) = f1(r, p), and the division is reached only with
\* p + r different from 0.
ClaimC6 ==
    f1out.done =>
        LET p == f1in[1]
            r == f1in[2]
            v == f1out.value
        IN  /\ (p.n = 0 \/ r.n = 0) => v = Zero /\ ~f1out.divided
            /\ (p.n # 0 /\ r.n # 0) =>
                  /\ f1out.divided
                  /\ v.k = "fin"
                  /\ v.n * (p.n * r.d + r.n * p.d) = 2 * p.n * r.n * v.d
            /\ v = f1out.swapped
            /\ f1out.divided => f1out.divisor.k = "fin" /\ f1out.divisor.n # 0

\* f1(2/3, 1) = 4/5
WitnessC6 ==
    /\ f1out.done
    /\ f1in = <<Fin(2, 3), Num(1)>>
    /\ f1out.value = Fin(4, 5)

\* C3: the sorted ranking is non-increasing in score, and no NaN score
\* stands before a score that is not NaN.
ClaimC3 ==
    rankout.sorted =>
        \A i, j \in DOMAIN rankout.ranked :
            i < j =>
               LET a == rankout.ranked[i].score
                   b == rankout.ranked[j].score
               IN  /\ ~FLt(a, b)
                   /\ ~(is_nan(a) /\ ~is_nan(b))

Reverse(o) == IF o = "Less" THEN "Greater" ELSE IF o = "Greater" THEN "Less" ELSE "Equal"

\* C10: cmp_f64 is a total order: reflexive, antisymmetric (each comparison
\* the reverse of the exchanged one) and transitive, NaN included.
ClaimC10 ==
    rankout.sorted =>
        LET c == rankout.cmps
        IN  \A i, j, k \in DOMAIN c :
               /\ c[i][i] = "Equal"
               /\ c[i][j] = Reverse(c[j][i])
               /\ (c[i][j] # "Greater" /\ c[j][k] # "Greater") => c[i][k] # "Greater"

====
